---- MODULE Spec2Model ----
(***************************************************************************)
(* Model of tasks/base/collector/connectEu.go: the Base/Collector/ConnectEU *)
(* task.  Execute first consults the region gate (prepareEarlyResult, unless *)
(* the task was forced with -t), then calls the injected HTTP getter once   *)
(* and classifies what came back.                                           *)
(***************************************************************************)
EXTENDS Integers, Sequences, FiniteSets, TLC

VARIABLES
    flags,          \* config.Flags: the task identifiers forced with -t (process-wide)
    op,             \* the tasks.Options argument of Execute
    upstream,       \* the map the caller passed in (p.upstream aliases it)
    upstreamAtCall, \* history: the contents of that map when Execute was called
    httpGetter,     \* p.httpGetter: Nil or "injected"
    state,          \* NotRun, Skipped, Probing, Classified
    returned,       \* Execute has returned `result`
    panicked,       \* Execute ended in a run-time panic instead of returning
    result,         \* the tasks.Result Execute returned (ZeroResult until then)
    probeCalls,     \* executions of the call p.httpGetter(wrapper), line 60
    wrapper,        \* the httpHelper.RequestWrapper handed to the getter
    resp,           \* the *http.Response the getter returned
    err,            \* the error the getter returned
    bodyStream,     \* resp.Body: "none", "open" or "closed"
    bodyReleases,   \* how many times resp.Body has been closed
    run,            \* number of the current execution
    pending,        \* the caller has yet to pass the arguments of the next execution
    prev            \* history: inputs and gate decision of the previous execution

vars == <<flags, op, upstream, upstreamAtCall, httpGetter, state, returned, panicked,
          result, probeCalls, wrapper, resp, err, bodyStream, bodyReleases, run, pending,
          prev>>

-----------------------------------------------------------------------------
(* Bounds of the model *)

\* longest region list a RegionDetect payload carries
MaxRegions == 2
\* executions of the task that are followed (SpecRuns)
MaxRuns == 2

-----------------------------------------------------------------------------
(* tasks.Status and tasks.Result *)

None == 0
Success == 1
Warning == 2
Failure == 3

\* a nil error, a nil function value
Nil == "<nil>"

NilPayload == [type |-> "nil", val |-> <<>>]

\* var result tasks.Result / tasks.Result{}
ZeroResult == [Status |-> None, Summary |-> "", URL |-> "", Payload |-> NilPayload]

Identifier == "Base/Collector/ConnectEU"

RegionDetectKey == "Base/Config/RegionDetect"

ProxyDetectKey == "Base/Config/ProxyDetect"

Dependencies == <<ProxyDetectKey, RegionDetectKey>>

ProbeURL == "https://collector.eu.newrelic.com/jserrors/ping"

TimeoutSeconds == 30

DocsURL == "https://docs.newrelic.com/docs/apm/new-relic-apm/getting-started/networks"

Advice == "\nPlease check network and proxy settings and try again or see -help for more options."

-----------------------------------------------------------------------------
(* Helpers of the code *)

\* config.Flags.IsForcedTask(identifier): was the task named on -t
IsForcedTask(f, identifier) == identifier \in f

\* tasks.StringInSlice(a, list)
StringInSlice(a, list) == \E i \in 1..Len(list) : list[i] = a

\* the type assertion payload.([]string): the value and ok
AssertStrings(payload) ==
    [regions |-> IF payload.type = "[]string" THEN payload.val ELSE <<>>,
     ok      |-> payload.type = "[]string"]

\* mutant: a map read that stores the zero value under a missing key
IndexStoreInserting(m, k) ==
    [value |-> IF k \in DOMAIN m THEN m[k] ELSE ZeroResult,
     store |-> IF k \in DOMAIN m THEN m ELSE (k :> ZeroResult) @@ m]

\* the map index expression p.upstream[k]: the element or the zero value; the
\* map itself is left as it was
IndexStore(m, k) ==
    [value |-> IF k \in DOMAIN m THEN m[k] ELSE ZeroResult,
     store |-> m]

Digit(d) ==
    CASE d = 0 -> "0" [] d = 1 -> "1" [] d = 2 -> "2" [] d = 3 -> "3" [] d = 4 -> "4"
      [] d = 5 -> "5" [] d = 6 -> "6" [] d = 7 -> "7" [] d = 8 -> "8" [] d = 9 -> "9"

RECURSIVE Digits(_)
Digits(n) == IF n < 10 THEN Digit(n) ELSE Digits(n \div 10) \o Digit(n % 10)

\* strconv.Itoa
Itoa(n) == IF n < 0 THEN "-" \o Digits(0 - n) ELSE Digits(n)

-----------------------------------------------------------------------------
(* The result builders *)

\* mutant: the length test is dropped, an empty region list skips too
prepareEarlyResultNoLen(store) ==
    LET a == AssertStrings(IndexStore(store, RegionDetectKey).value.Payload)
    IN  IF a.ok /\ ~StringInSlice("eu01", a.regions)
        THEN [ZeroResult EXCEPT !.Status = None,
                 !.Summary = "EU Region not detected, skipping EU collector connect check"]
        ELSE ZeroResult

prepareEarlyResult(store) ==
    LET a == AssertStrings(IndexStore(store, RegionDetectKey).value.Payload)
    IN  IF a.ok /\ ~StringInSlice("eu01", a.regions) /\ Len(a.regions) > 0
        THEN [ZeroResult EXCEPT !.Status = None,
                 !.Summary = "EU Region not detected, skipping EU collector connect check"]
        ELSE ZeroResult

\* mutant: the nil test is inverted, a real error yields the empty Result
prepareCollectorErrorResultInverted(e) ==
    IF e # Nil THEN ZeroResult
    ELSE [ZeroResult EXCEPT !.Status = Failure, !.URL = DocsURL]

prepareCollectorErrorResult(e) ==
    IF e = Nil THEN ZeroResult
    ELSE [ZeroResult EXCEPT
             !.Status = Failure,
             !.Summary = "There was an error connecting to collector.newrelic.com (EU Region)"
                         \o Advice \o "\nError = " \o e,
             !.URL = DocsURL]

prepareResponseErrorResult(e, statusCode) ==
    IF e = Nil THEN ZeroResult
    ELSE [ZeroResult EXCEPT
             !.Status = Warning,
             !.Summary = "Status = " \o statusCode
                         \o ". When connecting to the EU Region collector, there was an issue reading the body. "
                         \o Advice \o "Error = " \o e,
             !.URL = DocsURL]

\* mutant: the documentation link is set before the branch, so on success too
prepareResultAlwaysURL(body, statusCode) ==
    IF statusCode = "200"
    THEN [ZeroResult EXCEPT
             !.Status = Success,
             !.Summary = "Status Code = " \o statusCode \o " Body = " \o body,
             !.URL = DocsURL]
    ELSE [ZeroResult EXCEPT
             !.Status = Warning,
             !.Summary = "collector.newrelic.com (EU Region) returned a non-200 STATUS CODE: "
                         \o statusCode \o Advice \o "\nResponse Body: " \o body,
             !.URL = DocsURL]

prepareResult(body, statusCode) ==
    IF statusCode = "200"
    THEN [ZeroResult EXCEPT
             !.Status = Success,
             !.Summary = "Status Code = " \o statusCode \o " Body = " \o body]
    ELSE [ZeroResult EXCEPT
             !.Status = Warning,
             !.Summary = "collector.newrelic.com (EU Region) returned a non-200 STATUS CODE: "
                         \o statusCode \o Advice \o "\nResponse Body: " \o body,
             !.URL = DocsURL]

-----------------------------------------------------------------------------
(* What Execute is called with *)

RegionCodes == {"eu01", "us01"}

RegionLists == UNION {[1..n -> RegionCodes] : n \in 0..MaxRegions}

\* Payload is an interface{}: nothing, a []string, or a value of another type
Payloads ==
    {NilPayload, [type |-> "[]interface{}", val |-> <<"us01">>]}
        \cup {[type |-> "[]string", val |-> l] : l \in RegionLists}

UpstreamResult(p) == [Status |-> Success, Summary |-> "", URL |-> "", Payload |-> p]

\* the upstream maps: nothing at all, the proxy task alone, both dependencies
Stores ==
    {<< >>, ProxyDetectKey :> UpstreamResult(NilPayload)}
        \cup {(ProxyDetectKey :> UpstreamResult(NilPayload))
                  @@ (RegionDetectKey :> UpstreamResult(p)) : p \in Payloads}

FlagSets == {{}, {Identifier}, {"Base/Config/Validate"}}

OptionValues == [forced : BOOLEAN]

Getters == {Nil, "injected"}

StatusCodes == {0, 200, 404, 500}

Bodies == {"", "OK"}

TransportErrors == {"connection refused"}

ReadErrors == {"unexpected EOF"}

NilResp == [nil |-> TRUE, StatusCode |-> 0, Body |-> "", ReadErr |-> Nil, Closed |-> FALSE]

\* what the getter can hand back: a response whose body is open, an error
\* (alone, or with a response whose body the transport has already closed),
\* or neither
ProbeOutcomes ==
    {[resp |-> NilResp, err |-> e] : e \in TransportErrors \cup {Nil}}
        \cup {[resp |-> [nil |-> FALSE, StatusCode |-> c, Body |-> b, ReadErr |-> re,
                         Closed |-> FALSE],
               err |-> Nil] : c \in StatusCodes, b \in Bodies, re \in ReadErrors \cup {Nil}}
        \cup {[resp |-> [nil |-> FALSE, StatusCode |-> c, Body |-> "", ReadErr |-> re,
                         Closed |-> TRUE],
               err |-> e] : c \in StatusCodes, re \in ReadErrors \cup {Nil},
                            e \in TransportErrors}

NoPrev == [op |-> [forced |-> FALSE], flags |-> {}, upstream |-> << >>, decision |-> "none"]

-----------------------------------------------------------------------------
(* Execute *)

\* mutant: the override is taken from the options argument
ForcedRunFromOptions(o, f) == o.forced

\* !config.Flags.IsForcedTask(p.Identifier().String()) is the negation of this
ForcedRun(o, f) == IsForcedTask(f, Identifier)

\* mutant: the gate is consulted whether or not the task was forced
EarlyResultUnconditional(o, f, store) == prepareEarlyResult(store)

\* the Result the gate hands to the DeepEqual test; the empty Result when the
\* gate is not consulted
EarlyResult(o, f, store) ==
    IF ~ForcedRun(o, f) THEN prepareEarlyResult(store) ELSE ZeroResult

\* the upstream map after the gate
StoreAfterGate(o, f, store) ==
    IF ~ForcedRun(o, f) THEN IndexStore(store, RegionDetectKey).store ELSE store

\* mutant: the status code is looked at before the read error
ClassifyStatusFirst(e, re, statusCode, body) ==
    IF e # Nil THEN prepareCollectorErrorResult(e)
    ELSE IF statusCode = "200" THEN prepareResult(body, statusCode)
    ELSE IF re # Nil THEN prepareResponseErrorResult(re, statusCode)
    ELSE prepareResult(body, statusCode)

\* the Result for a getter error e, a ReadAll error re, a status code and a body
Classify(e, re, statusCode, body) ==
    IF e # Nil THEN prepareCollectorErrorResult(e)
    ELSE IF re # Nil THEN prepareResponseErrorResult(re, statusCode)
    ELSE prepareResult(body, statusCode)

\* mutant: Close is called after a successful read instead of being deferred
DeferredClosesAfterRead(e, r) == IF e = Nil /\ ~r.nil /\ r.ReadErr = Nil THEN 1 ELSE 0

\* how many times Execute closes resp.Body: the defer is registered once the
\* error test has passed
DeferredCloses(e, r) == IF e = Nil /\ ~r.nil THEN 1 ELSE 0

\* defer resp.Body.Close() evaluates resp.Body: a nil resp is dereferenced
NilDereference(e, r) == e = Nil /\ r.nil

Init ==
    /\ flags \in FlagSets
    /\ op \in OptionValues
    /\ upstream \in Stores
    /\ upstreamAtCall = upstream
    /\ httpGetter \in Getters
    /\ state = "NotRun"
    /\ returned = FALSE
    /\ panicked = FALSE
    /\ result = ZeroResult
    /\ probeCalls = 0
    /\ wrapper = [Method |-> "", URL |-> "", TimeoutSeconds |-> 0]
    /\ resp = NilResp
    /\ err = Nil
    /\ bodyStream = "none"
    /\ bodyReleases = 0
    /\ run = 1
    /\ pending = FALSE
    /\ prev = NoPrev

\* from the entry of Execute to the early return or to the call of the getter
Gate ==
    /\ state = "NotRun" /\ ~returned /\ ~panicked /\ ~pending
    /\ upstream' = StoreAfterGate(op, flags, upstream)
    /\ LET early == EarlyResult(op, flags, upstream)
       IN  IF early # ZeroResult
           THEN /\ state' = "Skipped"
                /\ result' = early
                /\ returned' = TRUE
                /\ UNCHANGED <<panicked, probeCalls, wrapper>>
           ELSE /\ state' = "Probing"
                /\ wrapper' = [Method |-> "GET", URL |-> ProbeURL,
                               TimeoutSeconds |-> TimeoutSeconds]
                /\ probeCalls' = probeCalls + 1
                /\ panicked' = (httpGetter = Nil)
                /\ UNCHANGED <<result, returned>>
    /\ UNCHANGED <<flags, op, upstreamAtCall, httpGetter, resp, err, bodyStream,
                   bodyReleases, run, pending, prev>>

\* mutant: a transport error is answered by calling the getter again
ProbeReturnRetry ==
    /\ state = "Probing" /\ ~returned /\ ~panicked
    /\ \E o \in ProbeOutcomes :
        /\ resp' = o.resp
        /\ err' = o.err
        /\ IF o.err # Nil /\ probeCalls < 2
           THEN /\ probeCalls' = probeCalls + 1
                /\ UNCHANGED <<state, result, returned, panicked, bodyStream, bodyReleases>>
           ELSE /\ state' = "Classified"
                /\ result' = Classify(o.err, o.resp.ReadErr, Itoa(o.resp.StatusCode),
                                      o.resp.Body)
                /\ returned' = TRUE
                /\ bodyStream' = IF o.resp.nil THEN "none" ELSE "closed"
                /\ bodyReleases' = 1
                /\ UNCHANGED <<panicked, probeCalls>>
    /\ UNCHANGED <<flags, op, upstream, upstreamAtCall, httpGetter, wrapper, run,
                   pending, prev>>

\* from the return of the getter to the return of Execute
ProbeReturn ==
    /\ state = "Probing" /\ ~returned /\ ~panicked
    /\ \E o \in ProbeOutcomes :
        /\ resp' = o.resp
        /\ err' = o.err
        /\ IF NilDereference(o.err, o.resp)
           THEN /\ panicked' = TRUE
                /\ UNCHANGED <<state, result, returned, bodyStream, bodyReleases>>
           ELSE /\ state' = "Classified"
                /\ result' = Classify(o.err, o.resp.ReadErr, Itoa(o.resp.StatusCode),
                                      o.resp.Body)
                /\ returned' = TRUE
                /\ bodyStream' =
                       IF o.resp.nil THEN "none"
                       ELSE IF o.resp.Closed \/ DeferredCloses(o.err, o.resp) > 0
                            THEN "closed" ELSE "open"
                /\ bodyReleases' =
                       (IF ~o.resp.nil /\ o.resp.Closed THEN 1 ELSE 0)
                           + DeferredCloses(o.err, o.resp)
                /\ UNCHANGED panicked
    /\ UNCHANGED <<flags, op, upstream, upstreamAtCall, httpGetter, probeCalls, wrapper,
                   run, pending, prev>>

\* the gate's decision in the current execution
Decision ==
    IF state = "NotRun" THEN "none" ELSE IF state = "Skipped" THEN "skip" ELSE "probe"

\* the execution is over: its frame is gone, the caller keeps what it saw
Restart ==
    /\ returned \/ panicked
    /\ run < MaxRuns
    /\ run' = run + 1
    /\ pending' = TRUE
    /\ prev' = [op |-> op, flags |-> flags, upstream |-> upstreamAtCall,
                decision |-> Decision]
    /\ flags' = {}
    /\ op' = [forced |-> FALSE]
    /\ upstream' = << >>
    /\ upstreamAtCall' = << >>
    /\ httpGetter' = Nil
    /\ state' = "NotRun"
    /\ returned' = FALSE
    /\ panicked' = FALSE
    /\ result' = ZeroResult
    /\ probeCalls' = 0
    /\ wrapper' = [Method |-> "", URL |-> "", TimeoutSeconds |-> 0]
    /\ resp' = NilResp
    /\ err' = Nil
    /\ bodyStream' = "none"
    /\ bodyReleases' = 0

\* the task is executed again, in another pass or another process: Execute is
\* entered with new arguments, under the flags of that process
Call ==
    /\ pending
    /\ pending' = FALSE
    /\ flags' \in FlagSets
    /\ op' \in OptionValues
    /\ upstream' \in Stores
    /\ upstreamAtCall' = upstream'
    /\ httpGetter' \in Getters
    /\ UNCHANGED <<state, returned, panicked, result, probeCalls, wrapper, resp, err,
                   bodyStream, bodyReleases, run, prev>>

Next == Gate \/ ProbeReturn

Spec == Init /\ [][Next]_vars

NextRuns == Gate \/ ProbeReturn \/ Restart \/ Call

SpecRuns == Init /\ [][NextRuns]_vars

-----------------------------------------------------------------------------
(* Vocabulary of the properties *)

Contains(s, sub) ==
    \E i \in 1..(Len(s) - Len(sub) + 1) : SubSeq(s, i, i + Len(sub) - 1) = sub

\* the task was forced with -t
Forced == Identifier \in flags

\* the RegionDetect payload the caller passed in is a non-empty []string without "eu01"
RegionKnownElsewhere ==
    /\ RegionDetectKey \in DOMAIN upstreamAtCall
    /\ LET p == upstreamAtCall[RegionDetectKey].Payload
       IN  /\ p.type = "[]string"
           /\ Len(p.val) > 0
           /\ \A i \in 1..Len(p.val) : p.val[i] # "eu01"

SkipReturned ==
    /\ returned
    /\ state = "Skipped"
    /\ result.Status = None
    /\ Contains(result.Summary, "EU Region not detected")
    /\ probeCalls = 0

ProbeInvoked == state \in {"Probing", "Classified"} /\ probeCalls = 1

GatePassed == state # "NotRun"

\* the []string payload the caller passed in, <<>> when there is none
RegionsAtCall ==
    IF RegionDetectKey \in DOMAIN upstreamAtCall
       /\ upstreamAtCall[RegionDetectKey].Payload.type = "[]string"
    THEN upstreamAtCall[RegionDetectKey].Payload.val
    ELSE << >>

-----------------------------------------------------------------------------
(* Properties *)

\* C1: when the task is not forced, Execute returns the skip Result (status
\* None, summary containing "EU Region not detected") without calling the
\* getter if and only if the RegionDetect payload is present, is a []string, is
\* non-empty and lacks "eu01"; in every other case the getter is called.
C1_GateCorrect ==
    (GatePassed /\ ~Forced) =>
        /\ SkipReturned <=> RegionKnownElsewhere
        /\ ProbeInvoked <=> ~RegionKnownElsewhere

C1_Witness ==
    /\ ~Forced
    /\ RegionsAtCall = <<"us01">>
    /\ SkipReturned

\* C2: when the task is forced, the getter is always called and the skip
\* Result is never returned, whatever the upstream map holds.
C2_ForcedRunProbes ==
    (GatePassed /\ Forced) =>
        /\ ProbeInvoked
        /\ state # "Skipped"
        /\ returned => result.Status # None

C2_Witness ==
    /\ Forced
    /\ RegionsAtCall = <<"us01">>
    /\ state = "Classified"
    /\ returned
    /\ probeCalls = 1

\* the row of the decision table for a transport error, a read error and a status code
TableStatus(transportError, readError, statusCode) ==
    IF transportError THEN Failure
    ELSE IF readError THEN Warning
    ELSE IF statusCode = "200" THEN Success
    ELSE Warning

\* C3: once the getter has been called, the Result is chosen by the first
\* matching row: transport error -> Failure; else read error -> Warning (also
\* with code 200); else code 200 -> Success (also with an empty body); else
\* Warning.  This holds of the Result Execute returns and of the classification
\* for every combination over the codes "200", "404", "", "500".
C3_ClassifierTable ==
    /\ (returned /\ state = "Classified") =>
           result.Status = TableStatus(err # Nil, resp.ReadErr # Nil,
                                       IF resp.StatusCode = 200 THEN "200" ELSE "other")
    /\ \A e \in TransportErrors \cup {Nil}, re \in ReadErrors \cup {Nil},
          c \in {"200", "404", "", "500"}, b \in Bodies :
           /\ Classify(e, re, c, b).Status = TableStatus(e # Nil, re # Nil, c)
           /\ Classify(e, re, c, b).Status \in {Success, Warning, Failure}

C3_Witness ==
    /\ returned
    /\ state = "Classified"
    /\ err = Nil
    /\ resp.ReadErr # Nil
    /\ resp.StatusCode = 200
    /\ result.Status = Warning

\* C4: when Execute returns, a response body that was handed to it has been
\* closed exactly once (after a 200, after a non-200, after a failed read), and
\* on the returns that have no body nothing was closed.
C4_BodyReleasedOnce ==
    returned =>
        /\ bodyStream # "open"
        /\ bodyStream = "closed" => bodyReleases = 1
        /\ bodyStream = "none" => bodyReleases = 0
        /\ (err = Nil /\ state = "Classified") => bodyStream = "closed"

C4_Witness ==
    /\ returned
    /\ err = Nil
    /\ resp.ReadErr # Nil
    /\ bodyStream = "closed"
    /\ bodyReleases = 1

\* C5: Execute never ends in a panic, whatever the getter is and returns.
C5_NeverPanics == ~panicked

\* C6: in every Result Execute returns the URL is set if and only if the
\* status is Warning or Failure.
C6_URLOnlyForProblems ==
    returned => (result.URL # "" <=> result.Status \in {Warning, Failure})

C6_Witness ==
    /\ returned
    /\ result.Status = Success
    /\ result.URL = ""

\* C7 as stated: two executions with the same options argument and the same
\* upstream map make the same gate decision.
C7_DecisionFromOptions ==
    (prev.decision # "none" /\ GatePassed /\ prev.op = op /\ prev.upstream = upstreamAtCall)
        => prev.decision = Decision

\* C7 as amended: two executions under the same process-wide forced-task flag
\* for this task and with the same upstream map make the same gate decision,
\* whatever their options arguments are.
C7_DecisionFromProcessFlag ==
    (/\ prev.decision # "none"
     /\ GatePassed
     /\ (Identifier \in prev.flags) = Forced
     /\ prev.upstream = upstreamAtCall)
        => prev.decision = Decision

C7_Witness ==
    /\ prev.decision = "skip"
    /\ Decision = "skip"
    /\ prev.op # op
    /\ prev.flags # flags
    /\ prev.upstream = upstreamAtCall

\* the steps one execution may take
LifecycleStep ==
    \/ state' = state /\ probeCalls' = probeCalls
    \/ state = "NotRun" /\ state' = "Skipped" /\ probeCalls' = probeCalls
    \/ state = "NotRun" /\ state' = "Probing" /\ probeCalls' = probeCalls + 1
    \/ state = "Probing" /\ state' = "Classified" /\ probeCalls' = probeCalls

\* C8: one execution goes NotRun -> Skipped or NotRun -> Probing -> Classified,
\* never back, and calls the getter at most once: no call follows a transport
\* error, a read error or a non-200 status.
C8_Lifecycle == [][LifecycleStep /\ probeCalls' <= 1]_vars

C8_Witness ==
    /\ state = "Classified"
    /\ err # Nil
    /\ probeCalls = 1
    /\ wrapper = [Method |-> "GET", URL |-> ProbeURL, TimeoutSeconds |-> 30]

\* C9: the map the caller passed in is never changed by Execute, also when the
\* gate looks up a key the map does not hold.
C9_UpstreamUnchanged == upstream = upstreamAtCall

C9_Witness ==
    /\ returned
    /\ ~Forced
    /\ RegionDetectKey \notin DOMAIN upstreamAtCall

\* C10: Execute returns status None if and only if the getter was not called;
\* after a call the Result is Success, Warning or Failure, never the empty
\* Result.
C10_NoneIffNotProbed ==
    returned =>
        /\ result.Status = None <=> probeCalls = 0
        /\ probeCalls > 0 =>
               /\ result.Status \in {Success, Warning, Failure}
               /\ result # ZeroResult
        /\ probeCalls = 0 <=> state = "Skipped"

C10_Witness ==
    /\ returned
    /\ probeCalls = 1
    /\ err # Nil
    /\ result.Status = Failure

====
